---- MODULE Spec2Model ----
(***************************************************************************)
(* Prompting Realities web app: the guest chat page (AssistantChatPage),   *)
(* its presence queue, its per-thread history load, its turn coordinator   *)
(* (handleSend) and the conversation reset, over the chat_messages and     *)
(* assistant_sessions tables.                                              *)
(*                                                                         *)
(* A view is one mounted instance of the chat page (one tab).  A reload    *)
(* is a second view of the same browser: views of one browser share        *)
(* window.localStorage (device id, thread id), not their React state.      *)
(* Every await of a handler is a step boundary: the code before the await  *)
(* reads refs and state as they are at that moment, the code after it      *)
(* runs in a later step.                                                   *)
(***************************************************************************)
EXTENDS Integers, Sequences, FiniteSets, TLC

\* ----------------------------------------------------------------- bounds
\* sends started over a run, all views together
MaxSends == 2
\* resets confirmed over a run, all views together
MaxResets == 1
\* run, stop and delete handlers the owner starts over a run
MaxOwnerActions == 3
\* requests that fail over a run
MaxFaults == 1

\* ------------------------------------------------------------ the universe
Views == {"v1", "v2"}
Browsers == {"b1", "b2"}
SessionId == "s1"
AssistantId == "a1"
StoredShareToken == "tok"

\* threadIdRef starts as the empty string, which the code tests as falsy
NoThread == 0

\* previous_response_id: null, or an id the model call returned.  An id
\* records the thread_id of the request that produced it (t) and the order of
\* the call (k); the program treats it as opaque and only copies it.
NullResponseId == [t |-> 0, k |-> 0]

\* ------------------------------------------------------------- JSON values
\* A JSON value is a tagged tuple: <<"null">>, <<"str", s>>, <<"num", n>>,
\* <<"bool", b>>, <<"arr", v1, v2, ...>>, <<"obj", <<k1, v1>>, <<k2, v2>>, ...>>.
JNull == <<"null">>
JStr(s) == <<"str", s>>
JObj(fields) == <<"obj">> \o fields
JNum(n) == <<"num", n>>
JBool(b) == <<"bool", b>>
JArr(items) == <<"arr">> \o items

IsObj(j) == j[1] = "obj"
Fields(j) == SubSeq(j, 2, Len(j))
Keys(j) == { Fields(j)[i][1] : i \in 1..Len(Fields(j)) }
\* payload.key: undefined (here JNull) when the key is absent
Get(j, key) ==
  IF IsObj(j) /\ key \in Keys(j)
  THEN LET i == CHOOSE i \in 1..Len(Fields(j)) : Fields(j)[i][1] = key
       IN Fields(j)[i][2]
  ELSE JNull

PayloadAnswerMqtt ==
  JObj(<< <<"answer", JStr("x")>>, <<"MQTT_value", JObj(<< <<"answer", JStr("x")>> >>)>> >>)
MarkerPayload(rid) == JObj(<< <<"_response_id_marker", rid>> >>)

\* what the model returns for an assistant with the placeholder schema
Payloads == {PayloadAnswerMqtt}

\* what the model can return for other schemas: each of the keys the page
\* looks for, alone and together, holding a value of every JSON shape, a
\* payload with none of them, and no payload
PayloadShapes ==
  LET With(fields) == JObj(<< <<"answer", JStr("x")>> >> \o fields)
  IN { PayloadAnswerMqtt,
       With(<< <<"MQTT_value", JArr(<<JNum(1), JNum(2)>>)>> >>),
       With(<< <<"MQTT_value", JStr("on")>>, <<"values", JNum(7)>> >>),
       With(<< <<"MQTT_value", JNum(1)>>, <<"MQTT_values", JArr(<<JNum(2)>>)>> >>),
       With(<< <<"MQTT_value", JBool(FALSE)>> >>),
       With(<< <<"MQTT_value", JNull>>, <<"MQTT_values", JArr(<<JNum(2)>>)>>,
               <<"values", JStr("v")>> >>),
       With(<< <<"MQTT_values", JNull>>, <<"values", JObj(<< <<"led", JNum(1)>> >>)>> >>),
       With(<< <<"values", JBool(TRUE)>> >>),
       With(<< >>),
       JNull }

\* the backend's display_text: the first of answer/response/text/content/
\* message found in the payload, else none
RECURSIVE FirstKey(_, _)
FirstKey(j, keys) ==
  IF keys = <<>> THEN JNull
  ELSE IF Get(j, Head(keys)) # JNull THEN Get(j, Head(keys))
  ELSE FirstKey(j, Tail(keys))
DisplayText(payload) ==
  IF payload = JNull THEN JNull
  ELSE FirstKey(payload, <<"answer", "response", "text", "content", "message">>)

\* ------------------------------------------------------- response schema
\* the placeholder schema of a new assistant
DEFAULT_JSON_SCHEMA ==
  JObj(<< <<"type", JStr("object")>>,
          <<"properties",
            JObj(<< <<"answer", JObj(<< <<"type", JStr("string")>> >>)>>,
                    <<"MQTT_value", JObj(<< <<"type", JStr("object")>> >>)>> >>)>> >>)

\* what can stand in the schema editor: nothing, text that is not JSON, the
\* placeholder schema, a schema that declares only answer, an empty object
SchemaTexts == {"", "{", "{answer,MQTT_value}", "{answer}", "{}"}

\* JSON.parse of the editor's text
JSONparse(text) ==
  IF text = "{answer,MQTT_value}" THEN DEFAULT_JSON_SCHEMA
  ELSE IF text = "{answer}"
  THEN JObj(<< <<"type", JStr("object")>>,
               <<"properties",
                 JObj(<< <<"answer", JObj(<< <<"type", JStr("string")>> >>)>> >>)>> >>)
  ELSE IF text = "{}" THEN JObj(<< >>)
  ELSE <<"SyntaxError">>

\* JSON.stringify(schema, null, 2)
JSONstringify(schema) ==
  CHOOSE text \in SchemaTexts \ {"", "{"} : JSONparse(text) = schema

\* ------------------------------------------------------- queue derivation
\* [...viewers].sort((a, b) => timeA - timeB): Array.prototype.sort is
\* stable, so records with equal joined_at keep their order in viewers.
RECURSIVE InsertByJoinedAt(_, _)
InsertByJoinedAt(sorted, x) ==
  IF sorted = <<>> THEN <<x>>
  ELSE IF Head(sorted).joined_at <= x.joined_at
       THEN <<Head(sorted)>> \o InsertByJoinedAt(Tail(sorted), x)
       ELSE <<x>> \o sorted
\* the membership list taken in the order the channel reports it
unsortedViewers(viewers) == viewers

RECURSIVE sortedViewers(_)
sortedViewers(viewers) ==
  IF viewers = <<>> THEN <<>>
  ELSE InsertByJoinedAt(sortedViewers(SubSeq(viewers, 1, Len(viewers) - 1)),
                        viewers[Len(viewers)])

\* sortedViewers.findIndex(v => v.device_id === deviceIdRef.current), 0-based,
\* -1 when no record matches
myPosition(viewers, deviceId) ==
  LET s == sortedViewers(viewers)
      hits == { i \in 1..Len(s) : s[i].device_id = deviceId }
  IN IF hits = {} THEN -1
     ELSE (CHOOSE i \in hits : \A j \in hits : i <= j) - 1

\* ------------------------------------------------------- MQTT extraction
\* the whole payload as the value to publish
mqttValueWholePayload(payload) == payload

\* an extraction that looks for the keys in the opposite order
mqttValueValuesFirst(payload) ==
  IF Get(payload, "values") # JNull THEN Get(payload, "values")
  ELSE IF Get(payload, "MQTT_values") # JNull THEN Get(payload, "MQTT_values")
  ELSE IF Get(payload, "MQTT_value") # JNull THEN Get(payload, "MQTT_value")
  ELSE payload

\* the value extracted for publication: MQTT_value, MQTT_values, values,
\* else the whole payload
mqttValue(payload) ==
  IF Get(payload, "MQTT_value") # JNull THEN Get(payload, "MQTT_value")
  ELSE IF Get(payload, "MQTT_values") # JNull THEN Get(payload, "MQTT_values")
  ELSE IF Get(payload, "values") # JNull THEN Get(payload, "values")
  ELSE payload

\* the payload of backendApi.publishMqtt: a value that is not an object or
\* an array is wrapped as { value: ... }
mqttPayload(value) ==
  IF value[1] \in {"obj", "arr"} THEN value
  ELSE JObj(<< <<"value", value>> >>)

\* a store of the extracted value whatever the publish returned
mqttPayloadIgnoringSuccess(attempted, success, valueToSave) ==
  IF attempted THEN valueToSave ELSE JNull

\* mqtt_payload of the row handed to messageService.create
mqttPayloadToStore(attempted, success, valueToSave) ==
  IF attempted /\ success THEN valueToSave ELSE JNull

\* ------------------------------------------------------------------ state
VARIABLES
  assistant_sessions,  \* the assistant_sessions table, in created_at order
  assistants,      \* the assistants table
  chat_messages,   \* the chat_messages table, in created_at order
  localStorage,    \* per browser, the pr-thread-<session>-<identity> entries
  nextThread,      \* crypto.randomUUID() calls made for thread ids
  nextResponse,    \* model calls answered
  nextSend,        \* sends started (tempId)
  resets,          \* resets confirmed
  life,            \* per view: "new", "mounted", "gone" (isMounted = mounted)
  access,          \* per view: the URL's share parameter and the login state
  browserOf,       \* per view: the browser whose localStorage it uses
  threadInit,      \* per view: initializeThreadId "idle", "pending", "done"
  threadIdRef,     \* per view: threadIdRef.current
  resetWrites,     \* per view: thread ids a reset has still to store
  lastResponseId,  \* per view: React state lastResponseId
  messages,        \* per view: React state messages
  sessionActive,   \* per view: React state sessionActive: "null", "active", "stopped"
  error,           \* per view: React state error
  isAiResponding,  \* per view: React state isAiResponding
  activeViewers,   \* per view: React state activeViewers
  queuePosition,   \* per view: React state queuePosition
  isActiveUser,    \* per view: React state isActiveUser
  loadTask,        \* per view: the load() call of the history effect
  sendTasks,       \* per view: the handleSend calls in flight
  presence,        \* the presence state of the channel session:<SessionId>
  channel,         \* per view: how far setupPresence and its channel have got
  presenceChannelRef,  \* per view: presenceChannelRef.current is set
  dashboard,       \* per dashboard: its AssistantState of AssistantId
  ownerTasks,      \* per dashboard: the run, stop and delete handlers in flight
  ownerActions,    \* handlers the owner has started
  faults,          \* requests that can still fail (network, store)
  modelPayloads    \* the payloads the model can answer with

storeVars == <<assistant_sessions, assistants, chat_messages>>
idVars == <<nextThread, nextResponse, nextSend, resets, faults, modelPayloads>>
queueVars == <<activeViewers, queuePosition, isActiveUser>>
presenceVars == <<presence, channel, presenceChannelRef>>
ownerVars == <<dashboard, ownerTasks, ownerActions>>
vars == <<assistant_sessions, assistants, chat_messages, localStorage, nextThread,
          nextResponse, nextSend, resets, life, access, browserOf, threadInit,
          threadIdRef, resetWrites, lastResponseId, messages, sessionActive,
          error, isAiResponding, activeViewers, queuePosition, isActiveUser,
          loadTask, sendTasks, presence, channel, presenceChannelRef,
          dashboard, ownerTasks, ownerActions, faults, modelPayloads>>

\* ------------------------------------------------------------- identities
\* the pr-device-id entry of the view's browser
deviceId(v) == browserOf[v]
\* user?.id || storedDeviceId
userIdentifier(v) == IF access[v].user THEN "user" ELSE deviceId(v)
Identities == {"user"} \cup Browsers

\* how a view can be opened: the share parameter of its URL ("none", the
\* stored token, another one), the pr-auth-token entry and the signed-in user
Accesses ==
  { [share |-> "tok",  token |-> FALSE, user |-> FALSE],
    [share |-> "bad",  token |-> FALSE, user |-> FALSE],
    [share |-> "none", token |-> FALSE, user |-> FALSE],
    [share |-> "none", token |-> TRUE,  user |-> FALSE],
    [share |-> "none", token |-> TRUE,  user |-> TRUE] }

NoError == "none"
\* a load() call: where it is, the polls it has made, the marker it read, and
\* the thread_id its chat_messages query was made with and the rows returned
IdleLoad ==
  [pc |-> "idle", retries |-> 0, marker |-> NullResponseId, thread |-> NoThread,
   records |-> <<>>]

\* ------------------------------------------------------------- the tables
Dashboards == {"d1", "d2"}
\* the session ids and share tokens the store hands out, in order of creation
SessionIds == <<SessionId, "s2", "s3", "s4", "s5", "s6">>
ShareTokens == <<StoredShareToken, "tok2", "tok3", "tok4", "tok5", "tok6">>

\* sessionService.get(sessionId): .eq("id", sessionId).single()
sessionServiceGet(rows, id) ==
  LET hits == { i \in 1..Len(rows) : rows[i].id = id }
  IN rows[CHOOSE i \in hits : TRUE]

\* the row the chat page reads for the session of its URL
session == sessionServiceGet(assistant_sessions, SessionId)
\* from("assistants").select("*").eq("id", assistantId).single()
assistant ==
  LET hits == { i \in 1..Len(assistants) : assistants[i].id = AssistantId }
  IN assistants[CHOOSE i \in hits : TRUE]

\* a dashboard's AssistantState of the assistant, before fetchAssistants
NotLoaded ==
  [opened |-> FALSE, listed |-> FALSE, status |-> "idle",
   activeSessionId |-> "none", shareToken |-> "none",
   jsonSchema |-> JNull, jsonSchemaText |-> ""]
\* the AssistantState of a dashboard on which the session has been run
RunningState ==
  [opened |-> TRUE, listed |-> TRUE, status |-> "running",
   activeSessionId |-> SessionId, shareToken |-> StoredShareToken,
   jsonSchema |-> DEFAULT_JSON_SCHEMA,
   jsonSchemaText |-> JSONstringify(DEFAULT_JSON_SCHEMA)]

\* the store while the assistant runs: its session row, and its MQTT
\* configuration with or without a broker
InitStore ==
  /\ assistant_sessions =
       << [id |-> SessionId, assistant_id |-> AssistantId, active |-> TRUE,
           status |-> "running", share_token |-> StoredShareToken] >>
  /\ assistants \in { << [id |-> AssistantId, mqtt_host |-> h, mqtt_topic |-> h,
                          json_schema |-> DEFAULT_JSON_SCHEMA,
                          deleted_at |-> JNull] >> : h \in {"", "localhost"} }
  /\ chat_messages = <<>>

\* no chat page is open yet
InitPage ==
  /\ localStorage = [b \in Browsers |-> [i \in Identities |-> NoThread]]
  /\ nextThread = 0
  /\ nextResponse = 0
  /\ nextSend = 0
  /\ resets = 0
  /\ life = [v \in Views |-> "new"]
  /\ access \in [Views -> Accesses]
  /\ browserOf \in [Views -> Browsers]
  /\ browserOf["v1"] = "b1"
  /\ threadInit = [v \in Views |-> "idle"]
  /\ threadIdRef = [v \in Views |-> NoThread]
  /\ resetWrites = [v \in Views |-> {}]
  /\ lastResponseId = [v \in Views |-> NullResponseId]
  /\ messages = [v \in Views |-> <<>>]
  /\ sessionActive = [v \in Views |-> "null"]
  /\ error = [v \in Views |-> NoError]
  /\ isAiResponding = [v \in Views |-> FALSE]
  /\ activeViewers = [v \in Views |-> 0]
  /\ queuePosition = [v \in Views |-> 0]
  /\ isActiveUser = [v \in Views |-> FALSE]
  /\ loadTask = [v \in Views |-> IdleLoad]
  /\ sendTasks = [v \in Views |-> {}]
  /\ presence = <<>>
  /\ channel = [v \in Views |-> "none"]
  /\ presenceChannelRef = [v \in Views |-> FALSE]

\* the owner has run the assistant from dashboard d1 and does nothing more
InitDashboard ==
  /\ dashboard = [d \in Dashboards |-> IF d = "d1" THEN RunningState ELSE NotLoaded]
  /\ ownerTasks = [d \in Dashboards |-> {}]
  /\ ownerActions = 0

Init ==
  /\ InitStore
  /\ InitPage
  /\ InitDashboard
  /\ faults = 0
  /\ modelPayloads = Payloads

\* ---------------------------------------------------------- view lifecycle
\* first render with hydrated = true: the effects start initializeThreadId,
\* setupPresence and load(); each suspends at its first await
Mount(v) ==
  /\ life[v] = "new"
  /\ life' = [life EXCEPT ![v] = "mounted"]
  /\ threadInit' = [threadInit EXCEPT ![v] = "pending"]
  /\ channel' = [channel EXCEPT ![v] = "getUser"]
  /\ loadTask' = [loadTask EXCEPT ![v] = [IdleLoad EXCEPT !.pc = "session"]]
  /\ UNCHANGED <<storeVars, ownerVars, localStorage, idVars, access, browserOf,
                 threadIdRef, resetWrites, lastResponseId, messages,
                 sessionActive, error, isAiResponding, queueVars, presence,
                 presenceChannelRef, sendTasks>>

\* the presence records other than those the channel of view v tracks
untrack(records, v) ==
  LET Other(r) == r.view # v IN SelectSeq(records, Other)

\* the effect cleanups: isMounted = false, and the channel is untracked and
\* unsubscribed if presenceChannelRef.current is set by now
Unmount(v) ==
  /\ life[v] = "mounted"
  /\ life' = [life EXCEPT ![v] = "gone"]
  /\ IF presenceChannelRef[v]
     THEN /\ presence' = untrack(presence, v)
          /\ channel' = [channel EXCEPT ![v] = "closed"]
     ELSE UNCHANGED <<presence, channel>>
  /\ UNCHANGED <<storeVars, ownerVars, localStorage, idVars, access, browserOf, threadInit,
                 threadIdRef, resetWrites, lastResponseId, messages,
                 sessionActive, error, isAiResponding, queueVars,
                 presenceChannelRef, loadTask, sendTasks>>

\* an initialisation that takes a fresh thread id at every page load
initializeThreadIdAlwaysNew(v) ==
  /\ threadInit[v] = "pending"
  /\ localStorage' = [localStorage EXCEPT ![browserOf[v]][userIdentifier(v)] = nextThread + 1]
  /\ nextThread' = nextThread + 1
  /\ threadIdRef' = [threadIdRef EXCEPT ![v] = nextThread + 1]
  /\ threadInit' = [threadInit EXCEPT ![v] = "done"]
  /\ UNCHANGED <<storeVars, ownerVars, nextResponse, nextSend, resets, faults, life, access,
                 browserOf, resetWrites, lastResponseId, messages,
                 sessionActive, error, isAiResponding, queueVars, presenceVars, loadTask,
                 sendTasks, modelPayloads>>

\* initializeThreadId after its await of supabase.auth.getUser()
initializeThreadId(v) ==
  /\ threadInit[v] = "pending"
  /\ LET b == browserOf[v]
         key == userIdentifier(v)
         stored == localStorage[b][key]
         fresh == nextThread + 1
     IN IF stored = NoThread
        THEN /\ localStorage' = [localStorage EXCEPT ![b][key] = fresh]
             /\ nextThread' = fresh
             /\ threadIdRef' = [threadIdRef EXCEPT ![v] = fresh]
        ELSE /\ threadIdRef' = [threadIdRef EXCEPT ![v] = stored]
             /\ UNCHANGED <<localStorage, nextThread>>
  /\ threadInit' = [threadInit EXCEPT ![v] = "done"]
  /\ UNCHANGED <<storeVars, ownerVars, nextResponse, nextSend, resets, faults, life, access,
                 browserOf, resetWrites, lastResponseId, messages,
                 sessionActive, error, isAiResponding, queueVars, presenceVars, loadTask,
                 sendTasks,
                 modelPayloads>>

\* the presence "sync" callback, for the membership list the channel reports
OnPresenceSync(v, viewers) ==
  /\ activeViewers' = [activeViewers EXCEPT ![v] = Len(viewers)]
  /\ queuePosition' = [queuePosition EXCEPT ![v] = myPosition(viewers, deviceId(v)) + 1]
  /\ isActiveUser' = [isActiveUser EXCEPT ![v] = (myPosition(viewers, deviceId(v)) = 0)]

\* ------------------------------------------------------------------ reset
\* a reset that also deletes the rows of the thread it leaves
resetDeletingRows(v) ==
  /\ life[v] = "mounted"
  /\ resets < MaxResets
  /\ resets' = resets + 1
  /\ messages' = [messages EXCEPT ![v] = <<>>]
  /\ lastResponseId' = [lastResponseId EXCEPT ![v] = NullResponseId]
  /\ nextThread' = nextThread + 1
  /\ threadIdRef' = [threadIdRef EXCEPT ![v] = nextThread + 1]
  /\ resetWrites' = [resetWrites EXCEPT ![v] = @ \cup {nextThread + 1}]
  /\ LET Kept(r) == r.thread_id # threadIdRef[v]
     IN chat_messages' = SelectSeq(chat_messages, Kept)
  /\ UNCHANGED <<assistant_sessions, assistants, ownerVars, localStorage, nextResponse, nextSend, faults, life,
                 access, browserOf, threadInit, sessionActive, error,
                 isAiResponding, queueVars, presenceVars, loadTask, sendTasks,
                 modelPayloads>>

\* confirmResetConversation up to its await
confirmResetConversation(v) ==
  /\ life[v] = "mounted"
  /\ resets < MaxResets
  /\ resets' = resets + 1
  /\ messages' = [messages EXCEPT ![v] = <<>>]
  /\ lastResponseId' = [lastResponseId EXCEPT ![v] = NullResponseId]
  /\ nextThread' = nextThread + 1
  /\ threadIdRef' = [threadIdRef EXCEPT ![v] = nextThread + 1]
  /\ resetWrites' = [resetWrites EXCEPT ![v] = @ \cup {nextThread + 1}]
  /\ UNCHANGED <<storeVars, ownerVars, localStorage, nextResponse, nextSend, faults, life, access,
                 browserOf, threadInit, sessionActive, error, isAiResponding,
                 queueVars, presenceVars, loadTask, sendTasks,
                 modelPayloads>>

\* confirmResetConversation after its await: localStorage.setItem
resetStoreThreadId(v) ==
  /\ \E t \in resetWrites[v] :
       /\ localStorage' = [localStorage EXCEPT ![browserOf[v]][userIdentifier(v)] = t]
       /\ resetWrites' = [resetWrites EXCEPT ![v] = @ \ {t}]
  /\ UNCHANGED <<storeVars, ownerVars, idVars, life, access, browserOf, threadInit,
                 threadIdRef, lastResponseId, messages, sessionActive, error,
                 isAiResponding, queueVars, presenceVars, loadTask, sendTasks>>

\* ------------------------------------------------------------ the store
\* a chat_messages row.  by, send, attempted, success, prev and chatThread are
\* not columns: they record which view's turn wrote the row, what happened to its
\* MQTT publish, and the previous_response_id and thread_id its model call
\* was given, and the payload handed to publishMqtt, for the properties to
\* refer to.
TurnRow(id, thread, device, payload, text, mqtt, t, v) ==
  [id |-> id, session_id |-> SessionId, assistant_id |-> AssistantId,
   thread_id |-> thread, device_id |-> device, user_text |-> JStr("hi"),
   assistant_payload |-> payload, response_text |-> text, mqtt_payload |-> mqtt,
   by |-> v, send |-> t.id, attempted |-> t.attempted, success |-> t.success,
   prev |-> t.prev, chatThread |-> t.chatThread, published |-> t.published]

\* the row the backend writes to remember a thread's continuation id
MarkerRow(id, thread, rid) ==
  [id |-> id, session_id |-> SessionId, assistant_id |-> AssistantId,
   thread_id |-> thread, device_id |-> "", user_text |-> JNull,
   assistant_payload |-> MarkerPayload(rid), response_text |-> JNull,
   mqtt_payload |-> JNull,
   by |-> "backend", send |-> 0, attempted |-> FALSE, success |-> FALSE,
   prev |-> NullResponseId, chatThread |-> thread, published |-> JNull]

\* the query without its thread_id filter
querySessionMessages(rows, sessionId, threadId) ==
  LET Match(r) == r.session_id = sessionId IN SelectSeq(rows, Match)

\* from("chat_messages").select("*").eq("session_id", s).eq("thread_id", t)
\*   .order("created_at", { ascending: true })
queryThreadMessages(rows, sessionId, threadId) ==
  LET Match(r) == r.session_id = sessionId /\ r.thread_id = threadId
  IN SelectSeq(rows, Match)

\* .is("user_text", null).not("assistant_payload", "is", null)
\*   .order("created_at", { ascending: false }).limit(1), then the
\* _response_id_marker of the row found, if it has one
queryMarker(rows, sessionId, threadId) ==
  LET Match(r) == /\ r.session_id = sessionId /\ r.thread_id = threadId
                  /\ r.user_text = JNull /\ r.assistant_payload # JNull
      found == SelectSeq(rows, Match)
  IN IF found = <<>> THEN NullResponseId
     ELSE LET marker == found[Len(found)].assistant_payload
          IN IF IsObj(marker) /\ "_response_id_marker" \in Keys(marker)
             THEN Get(marker, "_response_id_marker")
             ELSE NullResponseId

\* ------------------------------------------------------ history display
\* a load that filters nothing
displayableAll(record) == TRUE

\* the filter of load(): rows holding only the continuation marker are dropped
displayable(record) ==
  IF record.user_text # JNull \/ record.response_text # JNull THEN TRUE
  ELSE IF record.assistant_payload # JNull /\ IsObj(record.assistant_payload)
          /\ Keys(record.assistant_payload) = {"_response_id_marker"}
       THEN FALSE
       ELSE TRUE

\* mqttFailed as mapMessageRecord computes it from a stored row
mappedMqttFailed(message) ==
  message.assistant_payload # JNull /\ message.mqtt_payload = JNull

mapMessageRecord(message) ==
  (IF message.user_text # JNull
   THEN <<[id |-> message.id, role |-> "user", temp |-> FALSE, mqttFailed |-> FALSE]>>
   ELSE <<>>)
  \o
  (IF message.response_text # JNull \/ message.assistant_payload # JNull
   THEN <<[id |-> message.id, role |-> "assistant", temp |-> FALSE,
           mqttFailed |-> mappedMqttFailed(message)]>>
   ELSE <<>>)

RECURSIVE flatMapRecords(_)
flatMapRecords(records) ==
  IF records = <<>> THEN <<>>
  ELSE mapMessageRecord(Head(records)) \o flatMapRecords(Tail(records))

\* the message bubbles the page renders: {isActiveUser && messages.map(...)}
displayedMessages(v) == IF isActiveUser[v] THEN messages[v] ELSE <<>>

\* ------------------------------------------------------------ history load
\* a wait loop that polls twice as long
maxRetriesDoubled == 20 + 20

maxRetries == 20

shareToken(v) == access[v].share
isMounted(v) == life[v] = "mounted"

\* the catch and finally blocks of load()
loadFailed(v, text) ==
  /\ loadTask' = [loadTask EXCEPT ![v] = [IdleLoad EXCEPT !.pc = "done"]]
  /\ error' = [error EXCEPT ![v] = IF isMounted(v) THEN text ELSE @]

\* "Validate share token if using shared access", then the await of getUser
loadValidateShareToken(v) ==
  IF shareToken(v) # "none" /\ session.share_token # shareToken(v)
  THEN loadFailed(v, "invalid link")
  ELSE /\ loadTask' = [loadTask EXCEPT ![v] = [IdleLoad EXCEPT !.pc = "getUser"]]
       /\ UNCHANGED error

\* load() after the assistant_sessions query returned
loadSession(v) ==
  /\ loadTask[v].pc = "session"
  /\ \E found \in BOOLEAN :
       IF ~found
       THEN /\ loadFailed(v, "load failed")
            /\ UNCHANGED sessionActive
       ELSE /\ sessionActive' = [sessionActive EXCEPT ![v] =
                                   IF ~isMounted(v) THEN @
                                   ELSE IF session.active THEN "active" ELSE "stopped"]
            /\ IF isMounted(v) /\ threadIdRef[v] # NoThread
               THEN \* the marker query is sent for the thread id of this moment
                    /\ loadTask' = [loadTask EXCEPT ![v] =
                         [IdleLoad EXCEPT !.pc = "marker",
                            !.marker = queryMarker(chat_messages, SessionId, threadIdRef[v])]]
                    /\ UNCHANGED error
               ELSE loadValidateShareToken(v)
  /\ UNCHANGED <<storeVars, ownerVars, localStorage, idVars, life, access, browserOf,
                 threadInit, threadIdRef, resetWrites, lastResponseId, messages,
                 isAiResponding, queueVars, presenceVars, sendTasks>>

\* load() after the marker query returned: setLastResponseId, then the share
\* token is validated
loadMarker(v) ==
  /\ loadTask[v].pc = "marker"
  /\ lastResponseId' = [lastResponseId EXCEPT ![v] =
       IF loadTask[v].marker # NullResponseId THEN loadTask[v].marker ELSE @]
  /\ loadValidateShareToken(v)
  /\ UNCHANGED <<storeVars, ownerVars, localStorage, idVars, life, access, browserOf,
                 threadInit, threadIdRef, resetWrites, messages, sessionActive,
                 isAiResponding, queueVars, presenceVars, sendTasks>>

\* load() after getUser or after one 100 ms sleep: the wait loop for the
\* thread id, and the chat_messages query once it is there
loadWaitThread(v) ==
  /\ loadTask[v].pc \in {"getUser", "sleep"}
  /\ IF threadIdRef[v] = NoThread /\ loadTask[v].retries < maxRetries
     THEN /\ loadTask' = [loadTask EXCEPT ![v].pc = "sleep", ![v].retries = @ + 1]
          /\ UNCHANGED error
     ELSE IF threadIdRef[v] = NoThread
     THEN loadFailed(v, "load failed")
     ELSE /\ loadTask' = [loadTask EXCEPT ![v] =
               [IdleLoad EXCEPT !.pc = "records", !.thread = threadIdRef[v],
                  !.records = queryThreadMessages(chat_messages, SessionId, threadIdRef[v])]]
          /\ UNCHANGED error
  /\ UNCHANGED <<storeVars, ownerVars, localStorage, idVars, life, access, browserOf,
                 threadInit, threadIdRef, resetWrites, lastResponseId, messages,
                 sessionActive, isAiResponding, queueVars, presenceVars, sendTasks>>

\* load() after the chat_messages query returned
loadRecords(v) ==
  /\ loadTask[v].pc = "records"
  /\ messages' = [messages EXCEPT ![v] =
       IF isMounted(v)
       THEN flatMapRecords(SelectSeq(loadTask[v].records, displayable))
       ELSE @]
  /\ loadTask' = [loadTask EXCEPT ![v] = [IdleLoad EXCEPT !.pc = "done"]]
  /\ UNCHANGED <<storeVars, ownerVars, localStorage, idVars, life, access, browserOf,
                 threadInit, threadIdRef, resetWrites, lastResponseId,
                 sessionActive, error, isAiResponding, queueVars, presenceVars, sendTasks>>

\* ------------------------------------------------------- turn coordinator
NoResponse == [payload |-> JNull, response_id |-> NullResponseId, display_text |-> JNull]
NewSend(id, prev) ==
  [id |-> id, pc |-> "session", prev |-> prev, chatThread |-> NoThread,
   aiResponse |-> NoResponse, attempted |-> FALSE, success |-> FALSE,
   mqttValueToSave |-> JNull, published |-> JNull, row |-> 0]

\* the form that submits to handleSend is rendered only for the active user of
\* a session not known to be stopped
formRendered(v) == isMounted(v) /\ sessionActive[v] # "stopped" /\ isActiveUser[v]

optimisticMessage(id) == [id |-> id, role |-> "user", temp |-> TRUE, mqttFailed |-> FALSE]
withoutTemp(msgs, tempId) ==
  LET Keep(m) == ~(m.temp /\ m.id = tempId) IN SelectSeq(msgs, Keep)

\* handleSend up to its first await.  lastResponseId is the value of the
\* render the handler was created in: it is fixed here for the whole call.
handleSend(v) ==
  /\ formRendered(v)
  /\ nextSend < MaxSends
  /\ access[v].token \/ shareToken(v) # "none"
  /\ nextSend' = nextSend + 1
  /\ messages' = [messages EXCEPT ![v] = Append(@, optimisticMessage(nextSend + 1))]
  /\ isAiResponding' = [isAiResponding EXCEPT ![v] = TRUE]
  /\ sendTasks' = [sendTasks EXCEPT ![v] = @ \cup {NewSend(nextSend + 1, lastResponseId[v])}]
  /\ UNCHANGED <<storeVars, ownerVars, localStorage, nextThread, nextResponse, resets, faults,
                 life, access, browserOf, threadInit, threadIdRef, resetWrites,
                 lastResponseId, sessionActive, error, queueVars, presenceVars, loadTask,
                 modelPayloads>>

\* a catch block that leaves the optimistic message in the list
sendFailedKeepingMessage(v, task, text) ==
  /\ UNCHANGED messages
  /\ error' = [error EXCEPT ![v] = text]
  /\ isAiResponding' = [isAiResponding EXCEPT ![v] = FALSE]
  /\ sendTasks' = [sendTasks EXCEPT ![v] = @ \ {task}]

\* the catch and finally blocks of handleSend
sendFailed(v, task, text) ==
  /\ messages' = [messages EXCEPT ![v] = withoutTemp(@, task.id)]
  /\ error' = [error EXCEPT ![v] = text]
  /\ isAiResponding' = [isAiResponding EXCEPT ![v] = FALSE]
  /\ sendTasks' = [sendTasks EXCEPT ![v] = @ \ {task}]

\* the backend's /ai/chat: it answers with a payload, its display text and a
\* new continuation id, and stores the id in a marker row of the thread
backendChat(rows, threadId, rid) ==
  IF threadId = NoThread THEN rows
  ELSE Append(rows, MarkerRow(Len(rows) + 1, threadId, rid))

\* whether the request made in this step fails, while failures are left
Outcomes == IF faults > 0 THEN {"ok", "failed"} ELSE {"ok"}

\* a send that goes by the view's sessionActive instead of the stored row
sendSessionTrustingState(v, task) ==
  /\ task \in sendTasks[v]
  /\ task.pc = "session"
  /\ IF sessionActive[v] = "stopped"
     THEN sendFailed(v, task, "session stopped")
     ELSE /\ sendTasks' = [sendTasks EXCEPT ![v] = (@ \ {task}) \cup
               {[task EXCEPT !.pc = "chat"]}]
          /\ UNCHANGED <<messages, error, isAiResponding>>
  /\ UNCHANGED <<storeVars, ownerVars, localStorage, idVars, life, access,
                 browserOf, threadInit, threadIdRef, resetWrites,
                 lastResponseId, sessionActive, queueVars, presenceVars, loadTask>>

\* handleSend after sessionService.get returned or threw: the stored session
\* is checked, whatever sessionActive of the view says
sendSession(v, task) ==
  /\ task \in sendTasks[v]
  /\ task.pc = "session"
  /\ \E outcome \in Outcomes :
       /\ faults' = IF outcome = "failed" THEN faults - 1 ELSE faults
       /\ IF outcome = "failed"
          THEN sendFailed(v, task, "other")
          ELSE IF ~session.active
          THEN sendFailed(v, task, "session stopped")
          ELSE /\ sendTasks' = [sendTasks EXCEPT ![v] = (@ \ {task}) \cup
                    {[task EXCEPT !.pc = "chat"]}]
               /\ UNCHANGED <<messages, error, isAiResponding>>
  /\ UNCHANGED <<storeVars, ownerVars, localStorage, nextThread, nextResponse,
                 nextSend, resets, life, access, browserOf, threadInit,
                 threadIdRef, resetWrites, lastResponseId, sessionActive,
                 queueVars, presenceVars, loadTask,
                 modelPayloads>>

\* handleSend from the return of getUser to the return of backendApi.chat:
\* the user is checked, the assistant's configuration is fetched and the
\* model is called; previous_response_id is the lastResponseId of the call's
\* render, thread_id is threadIdRef.current at the call.  These awaits are
\* one step: nothing the handler reads later is written between them.
sendChat(v, task) ==
  /\ task \in sendTasks[v]
  /\ task.pc = "chat"
  /\ IF ~access[v].user /\ shareToken(v) = "none"
     THEN /\ sendFailed(v, task, "log in")
          /\ UNCHANGED <<chat_messages, nextResponse, faults>>
     ELSE \E outcome \in Outcomes :
            /\ faults' = IF outcome = "failed" THEN faults - 1 ELSE faults
            /\ IF outcome = "failed"
               THEN \* the assistants query or the call of /ai/chat failed
                    /\ sendFailed(v, task, "other")
                    /\ UNCHANGED <<chat_messages, nextResponse>>
               ELSE \E payload \in modelPayloads :
                      LET rid == [t |-> threadIdRef[v], k |-> nextResponse + 1]
                      IN /\ nextResponse' = nextResponse + 1
                         /\ chat_messages' = backendChat(chat_messages, threadIdRef[v], rid)
                         /\ sendTasks' = [sendTasks EXCEPT ![v] = (@ \ {task}) \cup
                              {[task EXCEPT !.pc = "chatDone", !.chatThread = threadIdRef[v],
                                  !.aiResponse = [payload |-> payload, response_id |-> rid,
                                                  display_text |-> DisplayText(payload)]]}]
                         /\ UNCHANGED <<messages, error, isAiResponding>>
  /\ UNCHANGED <<assistant_sessions, assistants, ownerVars, localStorage,
                 nextThread, nextSend, resets, life, access, browserOf,
                 threadInit, threadIdRef, resetWrites, lastResponseId,
                 sessionActive, queueVars, presenceVars, loadTask,
                 modelPayloads>>

\* the publish is attempted when there is a payload and the assistant has an
\* MQTT host and topic
mqttPublishAttempted(payload) ==
  payload # JNull /\ assistant.mqtt_host # "" /\ assistant.mqtt_topic # ""

\* handleSend from "Ensure thread_id is initialized before saving" to the
\* insert of messageService.create; t is the call with its publish outcome
sendPersist(v, task, t) ==
    IF threadIdRef[v] = NoThread
    THEN /\ sendFailed(v, task, "other")
         /\ UNCHANGED <<chat_messages, faults>>
    ELSE \E outcome \in Outcomes :
      /\ faults' = IF outcome = "failed" THEN faults - 1 ELSE faults
      /\ IF outcome = "failed"
         THEN \* the insert failed: messageService.create throws
              /\ sendFailed(v, task, "other")
              /\ UNCHANGED chat_messages
         ELSE LET id == Len(chat_messages) + 1
                  payload == t.aiResponse.payload
                  valueToSave == t.mqttValueToSave
              IN /\ chat_messages' = Append(chat_messages,
                      TurnRow(id, threadIdRef[v],
                              IF access[v].user THEN "" ELSE deviceId(v),
                              payload, t.aiResponse.display_text,
                              mqttPayloadToStore(t.attempted, t.success, valueToSave),
                              t, v))
                 /\ sendTasks' = [sendTasks EXCEPT ![v] = (@ \ {task}) \cup
                      {[t EXCEPT !.pc = "saved", !.row = id]}]
                 /\ UNCHANGED <<messages, error, isAiResponding>>

\* handleSend after backendApi.chat returned
sendChatDone(v, task) ==
  /\ task \in sendTasks[v]
  /\ task.pc = "chatDone"
  /\ lastResponseId' = [lastResponseId EXCEPT ![v] = task.aiResponse.response_id]
  /\ IF mqttPublishAttempted(task.aiResponse.payload)
     THEN /\ sendTasks' = [sendTasks EXCEPT ![v] = (@ \ {task}) \cup
               {[task EXCEPT !.pc = "mqtt", !.attempted = TRUE,
                             !.mqttValueToSave = mqttValue(task.aiResponse.payload),
                             !.published = mqttPayload(mqttValue(task.aiResponse.payload))]}]
          /\ UNCHANGED <<chat_messages, messages, error, isAiResponding, faults>>
     ELSE sendPersist(v, task, task)
  /\ UNCHANGED <<assistant_sessions, assistants, ownerVars, localStorage,
                 nextThread, nextResponse, nextSend, resets, life, access,
                 browserOf, threadInit, threadIdRef, resetWrites, sessionActive,
                 queueVars, presenceVars, loadTask,
                 modelPayloads>>

\* handleSend after backendApi.publishMqtt returned success, returned
\* failure, or threw
sendMqtt(v, task) ==
  /\ task \in sendTasks[v]
  /\ task.pc = "mqtt"
  /\ \E result \in {"success", "failure", "threw"} :
       sendPersist(v, task, [task EXCEPT !.success = (result = "success")])
  /\ UNCHANGED <<assistant_sessions, assistants, ownerVars, localStorage,
                 nextThread, nextResponse, nextSend, resets, life, access,
                 browserOf, threadInit, threadIdRef, resetWrites, lastResponseId,
                 sessionActive, queueVars, presenceVars, loadTask,
                 modelPayloads>>

\* an assistant message that never carries the warning
sentMqttFailedNever(attempted, success) == FALSE

\* mqttFailed of the assistant message appended right after the send
sentMqttFailed(attempted, success) == attempted /\ ~success

\* handleSend after messageService.create returned the row
sendSaved(v, task) ==
  /\ task \in sendTasks[v]
  /\ task.pc = "saved"
  /\ messages' = [messages EXCEPT ![v] = withoutTemp(@, task.id) \o
       << [id |-> task.row, role |-> "user", temp |-> FALSE, mqttFailed |-> FALSE],
          [id |-> task.row, role |-> "assistant", temp |-> FALSE,
           mqttFailed |-> sentMqttFailed(task.attempted, task.success)] >>]
  /\ error' = [error EXCEPT ![v] = NoError]
  /\ isAiResponding' = [isAiResponding EXCEPT ![v] = FALSE]
  /\ sendTasks' = [sendTasks EXCEPT ![v] = @ \ {task}]
  /\ UNCHANGED <<storeVars, ownerVars, localStorage, idVars, life, access, browserOf,
                 threadInit, threadIdRef, resetWrites, lastResponseId,
                 sessionActive, queueVars, presenceVars, loadTask>>

\* -------------------------------------------------------------- presence
\* joined_at is the clock of the browser that tracks: against the records
\* already on the channel it can be earlier, equal or later
JoinTimes == IF presence = <<>> THEN {1} ELSE {0, 1, 2}

\* setupPresence after its await of getUser: the channel is created with the
\* device id as presence key and subscribed, and presenceChannelRef is set
setupPresence(v) ==
  /\ channel[v] = "getUser"
  /\ channel' = [channel EXCEPT ![v] = "joining"]
  /\ presenceChannelRef' = [presenceChannelRef EXCEPT ![v] = TRUE]
  /\ UNCHANGED <<storeVars, ownerVars, localStorage, idVars, life, access, browserOf,
                 threadInit, threadIdRef, resetWrites, lastResponseId, messages,
                 sessionActive, error, isAiResponding, queueVars, presence,
                 loadTask, sendTasks>>

\* the subscribe callback: on SUBSCRIBED the view tracks its presence record;
\* on any other status (CHANNEL_ERROR, TIMED_OUT) nothing is tracked
subscribeStatus(v) ==
  /\ channel[v] = "joining"
  /\ \E status \in {"SUBSCRIBED", "CHANNEL_ERROR"} :
       IF status = "SUBSCRIBED"
       THEN \E t \in JoinTimes :
              /\ presence' = Append(presence,
                   [device_id |-> deviceId(v), joined_at |-> t, view |-> v])
              /\ channel' = [channel EXCEPT ![v] = "tracked"]
       ELSE /\ channel' = [channel EXCEPT ![v] = "error"]
            /\ UNCHANGED presence
  /\ UNCHANGED <<storeVars, ownerVars, localStorage, idVars, life, access, browserOf,
                 threadInit, threadIdRef, resetWrites, lastResponseId, messages,
                 sessionActive, error, isAiResponding, queueVars,
                 presenceChannelRef, loadTask, sendTasks>>

\* Object.values(channel.presenceState()).flat(): the state is keyed by the
\* presence key, so the records of one device id are listed together, the
\* keys in the order in which they first joined
RECURSIVE presenceStateFlat(_)
presenceStateFlat(records) ==
  IF records = <<>> THEN <<>>
  ELSE LET key == Head(records).device_id
           Same(r) == r.device_id = key
           Rest(r) == r.device_id # key
       IN SelectSeq(records, Same) \o presenceStateFlat(SelectSeq(records, Rest))

\* a presence "sync" event reaches a subscribed view
presenceSync(v) ==
  /\ channel[v] = "tracked"
  /\ OnPresenceSync(v, presenceStateFlat(presence))
  /\ UNCHANGED <<storeVars, ownerVars, localStorage, idVars, life, access, browserOf,
                 threadInit, threadIdRef, resetWrites, lastResponseId, messages,
                 sessionActive, error, isAiResponding, presenceVars, loadTask,
                 sendTasks>>

\* ------------------------------------------------------------ the owner
\* the dashboard page.  Its handlers close over selectedAssistant as it was
\* rendered when the button was pressed; every request is a step of its own.
NoSession ==
  [id |-> "none", assistant_id |-> "none", active |-> FALSE,
   status |-> "stopped", share_token |-> "none"]

\* sessionService.getLatestForAssistant: .eq("assistant_id", assistantId)
\*   .order("created_at", { ascending: false }).limit(1).maybeSingle()
getLatestForAssistant(rows, assistantId) ==
  LET hits == { i \in 1..Len(rows) : rows[i].assistant_id = assistantId }
  IN IF hits = {} THEN NoSession
     ELSE rows[CHOOSE i \in hits : \A j \in hits : j <= i]

\* sessionService.update(sessionId, { status, active })
sessionServiceUpdate(rows, id, status, active) ==
  [i \in 1..Len(rows) |->
     IF rows[i].id = id
     THEN [rows[i] EXCEPT !.status = status, !.active = active]
     ELSE rows[i]]

\* sessionService.create(assistantId): a new row, running and active, with a
\* share token of its own
sessionServiceCreate(rows, assistantId) ==
  Append(rows, [id |-> SessionIds[Len(rows) + 1], assistant_id |-> assistantId,
                active |-> TRUE, status |-> "running",
                share_token |-> ShareTokens[Len(rows) + 1]])

\* assistantService.list: .is("deleted_at", null)
assistantServiceList(rows) ==
  LET Live(r) == r.deleted_at = JNull IN SelectSeq(rows, Live)

\* assistantService.delete(id): update deleted_at
assistantServiceDelete(rows, id) ==
  [i \in 1..Len(rows) |->
     IF rows[i].id = id THEN [rows[i] EXCEPT !.deleted_at = JStr("now")]
     ELSE rows[i]]

\* assistantService.update(id, { json_schema, ... })
assistantServiceUpdate(rows, id, schema) ==
  [i \in 1..Len(rows) |->
     IF rows[i].id = id THEN [rows[i] EXCEPT !.json_schema = schema]
     ELSE rows[i]]

\* a handler call: its position, the session id and the schema it holds
OwnerTask(id, kind, pc, sessionId) ==
  [id |-> id, kind |-> kind, pc |-> pc, session |-> sessionId, schema |-> JNull]

ownerStep(d, task, next) ==
  ownerTasks' = [ownerTasks EXCEPT ![d] = (@ \ {task}) \cup next]

pageVars ==
  <<localStorage, idVars, life, access, browserOf, threadInit, threadIdRef,
    resetWrites, lastResponseId, messages, sessionActive, error,
    isAiResponding, queueVars, presenceVars, loadTask, sendTasks>>

\* the dashboard is opened: fetchAssistants up to its first request
fetchAssistants(d) ==
  /\ ~dashboard[d].opened
  /\ dashboard' = [dashboard EXCEPT ![d].opened = TRUE]
  /\ ownerTasks' = [ownerTasks EXCEPT ![d] = @ \cup {OwnerTask(0, "fetch", "list", "none")}]
  /\ UNCHANGED <<storeVars, ownerActions, pageVars>>

\* fetchAssistants after assistantService.list returned
fetchList(d, task) ==
  /\ task \in ownerTasks[d]
  /\ task.kind = "fetch" /\ task.pc = "list"
  /\ LET Mine(r) == r.id = AssistantId
     IN IF SelectSeq(assistantServiceList(assistants), Mine) = <<>>
        THEN /\ ownerStep(d, task, {})
             /\ dashboard' = [dashboard EXCEPT ![d].listed = FALSE]
        ELSE /\ ownerStep(d, task, {[task EXCEPT !.pc = "latest",
                                                 !.schema = assistant.json_schema]})
             /\ UNCHANGED dashboard
  /\ UNCHANGED <<storeVars, ownerActions, pageVars>>

\* fetchAssistants after getLatestForAssistant returned: setAssistants
fetchLatest(d, task) ==
  /\ task \in ownerTasks[d]
  /\ task.kind = "fetch" /\ task.pc = "latest"
  /\ LET latestSession == getLatestForAssistant(assistant_sessions, AssistantId)
         schemaText == IF task.schema # JNull THEN JSONstringify(task.schema)
                       ELSE JSONstringify(DEFAULT_JSON_SCHEMA)
     IN dashboard' = [dashboard EXCEPT ![d] =
          IF latestSession.active /\ latestSession.status = "running"
          THEN [opened |-> TRUE, listed |-> TRUE, status |-> "running",
                activeSessionId |-> latestSession.id,
                shareToken |-> latestSession.share_token,
                jsonSchema |-> task.schema, jsonSchemaText |-> schemaText]
          ELSE [opened |-> TRUE, listed |-> TRUE, status |-> "idle",
                activeSessionId |-> "none", shareToken |-> "none",
                jsonSchema |-> task.schema, jsonSchemaText |-> schemaText]]
  /\ ownerStep(d, task, {})
  /\ UNCHANGED <<storeVars, ownerActions, pageVars>>

\* updateAssistantState(id, updater): a dashboard that no longer lists the
\* assistant has nothing to update
updateAssistantState(d, state) ==
  dashboard' = [dashboard EXCEPT ![d] = IF @.listed THEN state ELSE @]

\* the "JSON schema" section of configSections: a schema has been parsed and
\* it has at least one key
schemaComplete(d) ==
  dashboard[d].jsonSchema # JNull /\ Keys(dashboard[d].jsonSchema) # {}

\* an edit of the schema editor: the text is kept in the dashboard's state
handleFieldChange(d, text) ==
  /\ dashboard[d].listed
  /\ dashboard[d].jsonSchemaText # text
  /\ dashboard' = [dashboard EXCEPT ![d].jsonSchemaText = text]
  /\ UNCHANGED <<storeVars, ownerTasks, ownerActions, pageVars>>

\* the Run button, enabled while the assistant is not shown as running and
\* its configuration is complete: handleRunAssistant up to the update of
\* saveAssistantNow(id, true).  The editor's text is parsed before the
\* first await; text that does not parse ends the handler.
handleRunAssistant(d) ==
  /\ dashboard[d].listed /\ dashboard[d].status # "running"
  /\ schemaComplete(d)
  /\ ownerActions < MaxOwnerActions
  /\ ownerActions' = ownerActions + 1
  /\ LET text == dashboard[d].jsonSchemaText
         parsedSchema == IF text = "" THEN JNull ELSE JSONparse(text)
     IN ownerTasks' = [ownerTasks EXCEPT ![d] =
          IF parsedSchema = <<"SyntaxError">> THEN @
          ELSE @ \cup {[OwnerTask(ownerActions + 1, "run", "save", "none")
                           EXCEPT !.schema = parsedSchema]}]
  /\ UNCHANGED <<storeVars, dashboard, pageVars>>

\* saveAssistantNow after assistantService.update returned: the parsed
\* schema is kept in the dashboard's state; then the broker test
runSave(d, task) ==
  /\ task \in ownerTasks[d]
  /\ task.kind = "run" /\ task.pc = "save"
  /\ assistants' = assistantServiceUpdate(assistants, AssistantId, task.schema)
  /\ updateAssistantState(d, [dashboard[d] EXCEPT !.jsonSchema = task.schema])
  /\ ownerStep(d, task, {[task EXCEPT !.pc = "latest"]})
  /\ UNCHANGED <<assistant_sessions, chat_messages, ownerActions, pageVars>>

\* handleRunAssistant after getLatestForAssistant returned
runLatest(d, task) ==
  /\ task \in ownerTasks[d]
  /\ task.kind = "run" /\ task.pc = "latest"
  /\ ownerStep(d, task,
       {[task EXCEPT !.pc = "write",
           !.session = getLatestForAssistant(assistant_sessions, AssistantId).id]})
  /\ UNCHANGED <<storeVars, dashboard, ownerActions, pageVars>>

\* handleRunAssistant: the session found is reactivated, or one is created
runWrite(d, task) ==
  /\ task \in ownerTasks[d]
  /\ task.kind = "run" /\ task.pc = "write"
  /\ IF task.session # "none"
     THEN /\ assistant_sessions' =
               sessionServiceUpdate(assistant_sessions, task.session, "running", TRUE)
          /\ ownerStep(d, task, {[task EXCEPT !.pc = "state"]})
     ELSE /\ assistant_sessions' = sessionServiceCreate(assistant_sessions, AssistantId)
          /\ ownerStep(d, task,
               {[task EXCEPT !.pc = "state",
                   !.session = SessionIds[Len(assistant_sessions) + 1]]})
  /\ UNCHANGED <<assistants, chat_messages, dashboard, ownerActions, pageVars>>

\* handleRunAssistant after the session row came back
runState(d, task) ==
  /\ task \in ownerTasks[d]
  /\ task.kind = "run" /\ task.pc = "state"
  /\ updateAssistantState(d,
       [dashboard[d] EXCEPT
          !.status = "running", !.activeSessionId = task.session,
          !.shareToken = sessionServiceGet(assistant_sessions, task.session).share_token])
  /\ ownerStep(d, task, {})
  /\ UNCHANGED <<storeVars, ownerActions, pageVars>>

\* the Stop button, rendered while the assistant is shown as running:
\* handleStopAssistant up to sessionService.update
handleStopAssistant(d) ==
  /\ dashboard[d].listed /\ dashboard[d].status = "running"
  /\ dashboard[d].activeSessionId # "none"
  /\ ownerActions < MaxOwnerActions
  /\ ownerActions' = ownerActions + 1
  /\ ownerTasks' = [ownerTasks EXCEPT ![d] =
       @ \cup {OwnerTask(ownerActions + 1, "stop", "write", dashboard[d].activeSessionId)}]
  /\ UNCHANGED <<storeVars, dashboard, pageVars>>

\* sessionService.update(activeSessionId, { status: "stopped", active: false })
stopWrite(d, task) ==
  /\ task \in ownerTasks[d]
  /\ task.kind = "stop" /\ task.pc = "write"
  /\ assistant_sessions' =
       sessionServiceUpdate(assistant_sessions, task.session, "stopped", FALSE)
  /\ ownerStep(d, task, {[task EXCEPT !.pc = "state"]})
  /\ UNCHANGED <<assistants, chat_messages, dashboard, ownerActions, pageVars>>

\* handleStopAssistant after the update returned
stopState(d, task) ==
  /\ task \in ownerTasks[d]
  /\ task.kind = "stop" /\ task.pc = "state"
  /\ updateAssistantState(d,
       [dashboard[d] EXCEPT
          !.status = "idle", !.activeSessionId = "none", !.shareToken = "none"])
  /\ ownerStep(d, task, {})
  /\ UNCHANGED <<storeVars, ownerActions, pageVars>>

\* handleDeleteAssistant up to its first request: the session is stopped
\* first if the dashboard shows the assistant running
handleDeleteAssistant(d) ==
  /\ dashboard[d].listed
  /\ ownerActions < MaxOwnerActions
  /\ ownerActions' = ownerActions + 1
  /\ ownerTasks' = [ownerTasks EXCEPT ![d] = @ \cup
       {IF dashboard[d].status = "running" /\ dashboard[d].activeSessionId # "none"
        THEN OwnerTask(ownerActions + 1, "delete", "stop", dashboard[d].activeSessionId)
        ELSE OwnerTask(ownerActions + 1, "delete", "delete", "none")}]
  /\ UNCHANGED <<storeVars, dashboard, pageVars>>

\* handleDeleteAssistant: sessionService.update(activeSessionId, stopped)
deleteStop(d, task) ==
  /\ task \in ownerTasks[d]
  /\ task.kind = "delete" /\ task.pc = "stop"
  /\ assistant_sessions' =
       sessionServiceUpdate(assistant_sessions, task.session, "stopped", FALSE)
  /\ ownerStep(d, task, {[task EXCEPT !.pc = "delete"]})
  /\ UNCHANGED <<assistants, chat_messages, dashboard, ownerActions, pageVars>>

\* handleDeleteAssistant: assistantService.delete(id)
deleteWrite(d, task) ==
  /\ task \in ownerTasks[d]
  /\ task.kind = "delete" /\ task.pc = "delete"
  /\ assistants' = assistantServiceDelete(assistants, AssistantId)
  /\ ownerStep(d, task, {[task EXCEPT !.pc = "remove"]})
  /\ UNCHANGED <<assistant_sessions, chat_messages, dashboard, ownerActions, pageVars>>

\* handleDeleteAssistant: "Remove from UI"
deleteRemove(d, task) ==
  /\ task \in ownerTasks[d]
  /\ task.kind = "delete" /\ task.pc = "remove"
  /\ dashboard' = [dashboard EXCEPT ![d].listed = FALSE]
  /\ ownerStep(d, task, {})
  /\ UNCHANGED <<storeVars, ownerActions, pageVars>>

\* the requests of the dashboard's handlers return
OwnerBackground(d) ==
  \E task \in ownerTasks[d] :
    \/ fetchList(d, task)
    \/ fetchLatest(d, task)
    \/ runSave(d, task)
    \/ runLatest(d, task)
    \/ runWrite(d, task)
    \/ runState(d, task)
    \/ stopWrite(d, task)
    \/ stopState(d, task)
    \/ deleteStop(d, task)
    \/ deleteWrite(d, task)
    \/ deleteRemove(d, task)

\* the figure of the queue panel: "{activeViewers - 1} people ahead of you"
peopleAhead(v) == activeViewers[v] - 1

\* the page of a visitor on a third device subscribes and tracks its record
otherDeviceTracks ==
  /\ \A i \in 1..Len(presence) : presence[i].device_id # "b3"
  /\ \E t \in JoinTimes :
       presence' = Append(presence, [device_id |-> "b3", joined_at |-> t, view |-> "other"])
  /\ UNCHANGED <<storeVars, ownerVars, localStorage, idVars, life, access,
                 browserOf, threadInit, threadIdRef, resetWrites, lastResponseId,
                 messages, sessionActive, error, isAiResponding, queueVars,
                 channel, presenceChannelRef, loadTask, sendTasks>>

\* ------------------------------------------------------------- behaviours
\* What the people at the browsers do, as opposed to what the code does.
\* A view has settled when none of its asynchronous calls is pending.
Settled(v) ==
  /\ threadInit[v] # "pending"
  /\ channel[v] \notin {"getUser", "joining"}
  /\ loadTask[v].pc \in {"idle", "done"}
  /\ sendTasks[v] = {}
  /\ resetWrites[v] = {}
\* the page has finished its initial effects
PageLoaded(v) == threadInit[v] = "done" /\ loadTask[v].pc = "done"
\* v2 is opened once v1 has been closed and has settled: a reload of the
\* page, or a later visit from another browser
Opens(v) == v = "v1" \/ (life["v1"] = "gone" /\ Settled("v1"))

\* in the behaviours of turns the presence channel answers after the page
\* has loaded; SpecQueue explores the channel at every moment
Joins(v) == threadInit[v] # "pending" /\ loadTask[v].pc \in {"idle", "done"}

\* the steps the code takes on its own once a view is open
Background(v) ==
  \/ initializeThreadId(v)
  \/ Joins(v) /\ setupPresence(v)
  \/ Joins(v) /\ subscribeStatus(v)
  \/ presenceSync(v)
  \/ loadSession(v)
  \/ loadMarker(v)
  \/ loadWaitThread(v)
  \/ loadRecords(v)
  \/ \E task \in sendTasks[v] :
       \/ sendSession(v, task)
       \/ sendChat(v, task)
       \/ sendChatDone(v, task)
       \/ sendMqtt(v, task)
       \/ sendSaved(v, task)

\* Turns of views opened in every way; the user waits for the reply before
\* the next message and does not reset.
Next ==
  \E v \in Views :
    \/ Opens(v) /\ Mount(v)
    \/ Settled(v) /\ Unmount(v)
    \/ PageLoaded(v) /\ sendTasks[v] = {} /\ handleSend(v)
    \/ Background(v)

Spec == Init /\ [][Next]_vars

\* One visit in which the user may submit again while a turn is in flight.
InitGuest ==
  /\ Init
  /\ \A v \in Views : access[v] = [share |-> "tok", token |-> FALSE, user |-> FALSE]

NextDouble ==
  \E v \in Views :
    \/ Opens(v) /\ Mount(v)
    \/ PageLoaded(v) /\ handleSend(v)
    \/ Background(v)

SpecDouble == InitGuest /\ [][NextDouble]_vars

\* Turns and resets; the user waits for the reply before the next message,
\* and may reset at any moment once the thread id is there.
NextReset ==
  \E v \in Views :
    \/ Opens(v) /\ Mount(v)
    \/ Settled(v) /\ Unmount(v)
    \/ PageLoaded(v) /\ sendTasks[v] = {} /\ handleSend(v)
    \/ threadInit[v] = "done" /\ confirmResetConversation(v)
    \/ resetStoreThreadId(v)
    \/ Background(v)

SpecReset == InitGuest /\ [][NextReset]_vars

\* The presence queue: views are opened and closed at any moment, on one
\* browser or on two.
NextQueue ==
  \E v \in Views :
    \/ Mount(v)
    \/ Unmount(v)
    \/ setupPresence(v)
    \/ subscribeStatus(v)
    \/ presenceSync(v)

SpecQueue == InitGuest /\ [][NextQueue]_vars

\* The owner's dashboards, open in two tabs, with no chat page open: another
\* assistant's session is running, this assistant has not been run yet.
ForeignSession ==
  [id |-> "s0", assistant_id |-> "a2", active |-> TRUE, status |-> "running",
   share_token |-> "tok0"]

InitOwner ==
  /\ assistant_sessions = <<ForeignSession>>
  /\ assistants = << [id |-> AssistantId, mqtt_host |-> "localhost",
                       mqtt_topic |-> "localhost",
                       json_schema |-> DEFAULT_JSON_SCHEMA, deleted_at |-> JNull] >>
  /\ chat_messages = <<>>
  /\ InitPage
  /\ \A v \in Views : access[v] = [share |-> "tok", token |-> FALSE, user |-> FALSE]
  /\ \A v \in Views : browserOf[v] = "b1"
  /\ dashboard = [d \in Dashboards |-> NotLoaded]
  /\ ownerTasks = [d \in Dashboards |-> {}]
  /\ ownerActions = 0
  /\ faults = 0
  /\ modelPayloads = Payloads

NextOwner ==
  \E d \in Dashboards :
    \/ fetchAssistants(d)
    \/ handleRunAssistant(d)
    \/ handleStopAssistant(d)
    \/ handleDeleteAssistant(d)
    \/ OwnerBackground(d)

SpecOwner == InitOwner /\ [][NextOwner]_vars

\* One dashboard on which the owner also edits the response schema.
NextSchema ==
  \E d \in {"d1"} :
    \/ fetchAssistants(d)
    \/ \E text \in SchemaTexts : handleFieldChange(d, text)
    \/ handleRunAssistant(d)
    \/ handleStopAssistant(d)
    \/ \E task \in ownerTasks[d] :
         \/ fetchList(d, task)
         \/ fetchLatest(d, task)
         \/ runSave(d, task)
         \/ runLatest(d, task)
         \/ runWrite(d, task)
         \/ runState(d, task)
         \/ stopWrite(d, task)
         \/ stopState(d, task)

SpecSchema == InitOwner /\ [][NextSchema]_vars

\* guests whose visits are all made from one browser
InitOneBrowser ==
  /\ InitGuest
  /\ \A v \in Views : browserOf[v] = "b1"

\* A guest's visit while the owner stops and runs the session again from
\* the dashboard.
NextStop ==
  \/ \E v \in {"v1"} :
       \/ Opens(v) /\ Mount(v)
       \/ Settled(v) /\ Unmount(v)
       \/ PageLoaded(v) /\ sendTasks[v] = {} /\ handleSend(v)
       \/ Background(v)
  \/ \E d \in Dashboards :
       \/ handleRunAssistant(d)
       \/ handleStopAssistant(d)
       \/ \E task \in ownerTasks[d] :
            \/ runSave(d, task)
            \/ runLatest(d, task)
            \/ runWrite(d, task)
            \/ runState(d, task)
            \/ stopWrite(d, task)
            \/ stopState(d, task)

SpecStop == InitOneBrowser /\ [][NextStop]_vars

\* Turns in which one request may fail.
InitFaults ==
  /\ InitStore
  /\ InitPage
  /\ InitDashboard
  /\ \A v \in Views : access[v] = [share |-> "tok", token |-> FALSE, user |-> FALSE]
  /\ faults = MaxFaults
  /\ modelPayloads = Payloads

SpecFaults == InitFaults /\ [][Next]_vars

\* Visits that can end at any moment, with requests in flight.
NextLeave ==
  \E v \in Views :
    \/ Opens(v) /\ Mount(v)
    \/ Unmount(v)
    \/ PageLoaded(v) /\ sendTasks[v] = {} /\ handleSend(v)
    \/ threadInit[v] = "done" /\ confirmResetConversation(v)
    \/ resetStoreThreadId(v)
    \/ Background(v)

SpecLeave == InitOneBrowser /\ [][NextLeave]_vars

\* The presence queue with a third device on the channel.
NextCrowd ==
  \/ NextQueue
  \/ otherDeviceTracks

SpecCrowd == InitGuest /\ [][NextCrowd]_vars

\* A guest's turns with an assistant of any MQTT configuration whose model
\* answers with payloads of every shape.
InitShapes ==
  /\ assistant_sessions =
       << [id |-> SessionId, assistant_id |-> AssistantId, active |-> TRUE,
           status |-> "running", share_token |-> StoredShareToken] >>
  /\ assistants \in { << [id |-> AssistantId, mqtt_host |-> h, mqtt_topic |-> t,
                          json_schema |-> DEFAULT_JSON_SCHEMA,
                          deleted_at |-> JNull] >> :
                       h \in {"", "localhost"}, t \in {"", "lamp"} }
  /\ chat_messages = <<>>
  /\ InitPage
  /\ InitDashboard
  /\ faults = 0
  /\ modelPayloads = PayloadShapes
  /\ \A v \in Views : access[v] = [share |-> "tok", token |-> FALSE, user |-> FALSE]
  /\ \A v \in Views : browserOf[v] = "b1"

NextShapes ==
  \E v \in {"v1"} :
    \/ Opens(v) /\ Mount(v)
    \/ PageLoaded(v) /\ sendTasks[v] = {} /\ handleSend(v)
    \/ Background(v)

SpecShapes == InitShapes /\ [][NextShapes]_vars

\* One guest's visit.  A sleep of the wait loop ends when its timer fires,
\* and the browser fires every timer it has set: the steps of the wait loop
\* are taken whenever they stay possible.
NextPoll ==
  \E v \in {"v1"} :
    \/ Opens(v) /\ Mount(v)
    \/ Settled(v) /\ Unmount(v)
    \/ PageLoaded(v) /\ sendTasks[v] = {} /\ handleSend(v)
    \/ Background(v)

SpecPoll == InitOneBrowser /\ [][NextPoll]_vars /\ WF_vars(loadWaitThread("v1"))

\* ----------------------------------------------------------------- claims
\* In the formulas below a caller is unauthorised when it is not signed in and
\* its URL carries no share token equal to the session's stored one; the rows
\* of turns are those a view wrote (chat_messages[i].by \in Views), as opposed
\* to the backend's marker rows; the stored messages a view shows are the
\* entries of messages that are not optimistic (temp).

\* C1: for the presence records of the session, exactly one tracked viewer
\* derives position 0 (active), and the queue positions the tracked viewers
\* derive are a permutation of 1..N, N the number of records.
C1_QueueIsPermutation ==
  LET viewers == presenceStateFlat(presence)
      N == Len(viewers)
      position(i) == myPosition(viewers, viewers[i].device_id) + 1
  IN N > 0 =>
       /\ Cardinality({ i \in 1..N : position(i) = 1 }) = 1
       /\ { position(i) : i \in 1..N } = 1..N

\* C2: a turn of a caller with neither a signed-in user nor the session's
\* share token gets no further than the authorization check: the model is
\* not called for it and no chat_messages row is written by it.
C2_UnauthorisedTurnRejected ==
  LET Unauthorised(v) == ~access[v].user /\ access[v].share # session.share_token
  IN /\ \A i \in 1..Len(chat_messages) :
          chat_messages[i].by \in Views => ~Unauthorised(chat_messages[i].by)
     /\ \A v \in Views :
          Unauthorised(v) => \A task \in sendTasks[v] : task.pc \in {"session", "chat"}

\* C3: a history load of an unauthorised caller hands it no continuation id
\* and shows it no stored message: the steps of its load() leave
\* lastResponseId alone and add nothing to messages.
C3_ReadRequiresShareToken ==
  [][\A v \in Views :
       (/\ ~access[v].user
        /\ access[v].share # session.share_token
        /\ loadTask'[v] # loadTask[v])
         => /\ lastResponseId'[v] = lastResponseId[v]
            /\ (messages'[v] = messages[v] \/ messages'[v] = <<>>)]_vars

\* C4: every assistant message a view shows for a stored row is flagged
\* MQTT-failed exactly if the row's mqtt_payload is null and a publish was
\* attempted for its turn, right after the send and on a later history load.
C4_FlagIffAttemptedAndFailed ==
  \A v \in Views : \A i \in 1..Len(messages[v]) :
    LET m == messages[v][i]
        row == chat_messages[m.id]
    IN (~m.temp /\ m.role = "assistant" /\ row.assistant_payload # JNull)
         => (m.mqttFailed <=> (row.mqtt_payload = JNull /\ row.attempted))

\* C5: a row written by a turn has a non-null mqtt_payload only if the
\* publish was attempted and returned success; a publish that returned
\* failure or threw leaves mqtt_payload null.
C5_MqttPayloadOnlyOnSuccess ==
  \A i \in 1..Len(chat_messages) :
    LET row == chat_messages[i]
    IN row.by \in Views =>
         /\ row.mqtt_payload # JNull => (row.attempted /\ row.success)
         /\ (row.attempted /\ ~row.success) => row.mqtt_payload = JNull

\* a failed publish and a successful one have both been persisted
C5_Witness ==
  /\ \E i \in 1..Len(chat_messages) :
       /\ chat_messages[i].by \in Views
       /\ chat_messages[i].attempted /\ ~chat_messages[i].success
       /\ chat_messages[i].mqtt_payload = JNull
  /\ \E i \in 1..Len(chat_messages) :
       /\ chat_messages[i].by \in Views
       /\ chat_messages[i].success
       /\ chat_messages[i].mqtt_payload # JNull

\* C6: a view has at most one handleSend call in flight.
C6_OneTurnInFlight ==
  \A v \in Views : Cardinality(sendTasks[v]) <= 1

\* C7: the view belongs to the thread in force: the continuation id it
\* remembers was obtained in that thread, the stored messages it shows are
\* rows of that thread, and every persisted turn carried a continuation id
\* obtained in the thread it is persisted under.
C7_ResetLeavesOldThread ==
  /\ \A v \in Views :
       /\ lastResponseId[v] = NullResponseId \/ lastResponseId[v].t = threadIdRef[v]
       /\ \A i \in 1..Len(messages[v]) :
            ~messages[v][i].temp
              => chat_messages[messages[v][i].id].thread_id = threadIdRef[v]
  /\ \A i \in 1..Len(chat_messages) :
       \/ chat_messages[i].prev = NullResponseId
       \/ chat_messages[i].prev.t = chat_messages[i].thread_id

\* C8: the message list a history load produces holds only rows of the
\* session whose thread_id is the one the load asked for.
C8_LoadShowsOnlyItsThread ==
  [][\A v \in Views :
       (loadTask[v].pc = "records" /\ loadTask'[v].pc = "done" /\ isMounted(v))
         => \A i \in 1..Len(messages'[v]) :
              /\ chat_messages[messages'[v][i].id].thread_id = loadTask[v].thread
              /\ chat_messages[messages'[v][i].id].session_id = SessionId]_vars

\* a load has rows to show while the session holds a turn of another thread
C8_Witness ==
  \E v \in Views :
    /\ loadTask[v].pc = "records"
    /\ \E i \in 1..Len(loadTask[v].records) : loadTask[v].records[i].by \in Views
    /\ \E i \in 1..Len(chat_messages) :
         /\ chat_messages[i].by \in Views
         /\ chat_messages[i].thread_id # loadTask[v].thread

\* C9: the previous_response_id a model call was given is null or an id
\* that a model call of the same thread_id returned.
C9_ContinuationStaysInThread ==
  \A v \in Views : \A task \in sendTasks[v] :
    task.pc \notin {"session", "chat"}
      => (task.prev = NullResponseId \/ task.prev.t = task.chatThread)

\* C10: no step removes or changes a stored row: chat_messages only grows
\* at its end, across sends and resets.
C10_RowsOnlyAdded ==
  [][/\ Len(chat_messages') >= Len(chat_messages)
     /\ SubSeq(chat_messages', 1, Len(chat_messages)) = chat_messages]_vars

\* a view has reset while rows of the thread it left are stored
C10_Witness ==
  \E v \in Views :
    /\ resets > 0
    /\ \E i \in 1..Len(chat_messages) :
         /\ chat_messages[i].by = v
         /\ chat_messages[i].thread_id # threadIdRef[v]

\* C11: a send whose session read finds the stored session with active=false
\* ends there, whatever the view's sessionActive says: its optimistic message
\* is removed, the session-stopped error is set, the model is not called and
\* no row is written.
C11_StoppedSessionRejectsSend ==
  [][\A v \in Views : \A task \in sendTasks[v] :
       (task.pc = "session" /\ ~session.active /\ task \notin sendTasks'[v])
         => /\ \A t \in sendTasks'[v] : t.id # task.id
            /\ \A i \in 1..Len(messages'[v]) :
                 ~(messages'[v][i].temp /\ messages'[v][i].id = task.id)
            /\ error'[v] = "session stopped"
            /\ chat_messages' = chat_messages
            /\ nextResponse' = nextResponse]_vars

\* a send was rejected for the stopped session in a view that still holds
\* the session as active
C11_Witness ==
  \E v \in Views :
    /\ ~session.active
    /\ sessionActive[v] = "active"
    /\ error[v] = "session stopped"
    /\ sendTasks[v] = {}
    /\ nextSend > 0
    /\ \A i \in 1..Len(messages[v]) : ~messages[v][i].temp

C13_MqttFailureKeepsTurn ==
  [][\A v \in Views : \A task \in sendTasks[v] :
       /\ (task.pc = "mqtt" /\ task \notin sendTasks'[v])
            => \E t \in sendTasks'[v] :
                 /\ t.id = task.id /\ t.pc = "saved"
                 /\ ~t.success =>
                      /\ Len(chat_messages') = Len(chat_messages) + 1
                      /\ chat_messages'[t.row].send = task.id
                      /\ chat_messages'[t.row].mqtt_payload = JNull
                      /\ chat_messages'[t.row].assistant_payload = task.aiResponse.payload
       /\ (task.pc = "saved" /\ task.attempted /\ ~task.success
              /\ task \notin sendTasks'[v])
            => /\ Cardinality({ i \in 1..Len(chat_messages) :
                                  chat_messages[i].send = task.id }) = 1
               /\ Len(messages'[v]) >= 2
               /\ messages'[v][Len(messages'[v]) - 1] =
                    [id |-> task.row, role |-> "user", temp |-> FALSE,
                     mqttFailed |-> FALSE]
               /\ messages'[v][Len(messages'[v])] =
                    [id |-> task.row, role |-> "assistant", temp |-> FALSE,
                     mqttFailed |-> TRUE]
               /\ error'[v] = NoError]_vars

\* a turn whose publish failed has been stored and is shown with the warning
C13_Witness ==
  \E v \in Views : \E i \in 1..Len(messages[v]) :
    /\ messages[v][i].role = "assistant" /\ messages[v][i].mqttFailed
    /\ chat_messages[messages[v][i].id].attempted
    /\ ~chat_messages[messages[v][i].id].success
    /\ chat_messages[messages[v][i].id].mqtt_payload = JNull
    /\ sendTasks[v] = {}

\* C14: when a presence sync reaches a view while the channel holds the
\* records of two devices, the view whose record has the earlier joined_at
\* becomes active and the other shows queue position 2 with one viewer ahead
\* (the page prints activeViewers - 1); when the sync reaches a view whose
\* record is the only one left, the view becomes active; and a sync writes
\* nothing to the store.
C14_QueuePromotion ==
  [][\A v \in Views :
       presenceSync(v) =>
         LET viewers == presenceStateFlat(presence)
             mine == { i \in 1..Len(viewers) : viewers[i].view = v }
             others == { i \in 1..Len(viewers) : viewers[i].device_id # deviceId(v) }
         IN /\ storeVars' = storeVars
            /\ localStorage' = localStorage
            /\ (Len(viewers) = 2 /\ mine # {} /\ others # {}) =>
                 \A i \in mine : \A j \in others :
                   /\ viewers[i].joined_at < viewers[j].joined_at =>
                        /\ isActiveUser'[v]
                        /\ queuePosition'[v] = 1
                   /\ viewers[j].joined_at < viewers[i].joined_at =>
                        /\ ~isActiveUser'[v]
                        /\ queuePosition'[v] = 2
                        /\ activeViewers'[v] - 1 = 1
            /\ (Len(viewers) = 1 /\ mine # {}) =>
                 /\ isActiveUser'[v]
                 /\ queuePosition'[v] = 1]_vars

\* a view that was active with a second device queued has gone, and the
\* device that joined after it is now the active one, alone on the channel
C14_Witness ==
  \E a \in Views : \E b \in Views :
    /\ browserOf[a] # browserOf[b]
    /\ channel[a] = "closed"
    /\ isActiveUser[a] /\ activeViewers[a] = 2
    /\ Len(presence) = 1
    /\ presence[1].view = b /\ presence[1].joined_at = 2
    /\ isActiveUser[b] /\ queuePosition[b] = 1 /\ activeViewers[b] = 1

\* C15: a view whose presence channel could not be joined is not the active
\* user, shows a warning (the error banner is the only place the page has for
\* one), and renders the messages it has loaded.
C15_PassiveViewerSeesHistory ==
  \A v \in Views :
    (isMounted(v) /\ channel[v] = "error" /\ loadTask[v].pc = "done")
      => /\ ~isActiveUser[v]
         /\ error[v] # NoError
         /\ displayedMessages(v) = messages[v]

\* C16: once a view has unmounted, no step changes its React state: the
\* results of its load, marker load, sends and resets that arrive later are
\* not applied.
C16_NoUpdateAfterUnmount ==
  [][\A v \in Views :
       life[v] = "gone"
         => /\ messages'[v] = messages[v]
            /\ lastResponseId'[v] = lastResponseId[v]
            /\ sessionActive'[v] = sessionActive[v]
            /\ error'[v] = error[v]
            /\ isAiResponding'[v] = isAiResponding[v]]_vars

\* C17: the row stored for a turn whose model payload is
\* {"answer": "x", "MQTT_value": {"answer": "x"}} and whose publish was
\* attempted and succeeded has response_text "x" and mqtt_payload
\* {"answer": "x"}.
C17_AnswerAndMqttValueStored ==
  \A i \in 1..Len(chat_messages) :
    LET row == chat_messages[i]
    IN (/\ row.by \in Views
        /\ row.assistant_payload = PayloadAnswerMqtt
        /\ row.attempted /\ row.success)
         => /\ row.response_text = JStr("x")
            /\ row.mqtt_payload = JObj(<< <<"answer", JStr("x")>> >>)

\* such a turn has been stored, for an assistant with a broker configured
C17_Witness ==
  /\ assistant.mqtt_host # "" /\ assistant.mqtt_topic # ""
  /\ \E i \in 1..Len(chat_messages) :
       /\ chat_messages[i].by \in Views
       /\ chat_messages[i].assistant_payload = PayloadAnswerMqtt
       /\ chat_messages[i].attempted /\ chat_messages[i].success
       /\ chat_messages[i].user_text # JNull

\* C18: the write of a run reactivates the assistant's most recently created
\* session row when the assistant has one (same id, same share token, status
\* running, active, nothing else changed and no row added), and adds a row
\* only when the assistant has none.
C18_RunReusesLatestSession ==
  [][\A d \in Dashboards : \A task \in ownerTasks[d] :
       (task.kind = "run" /\ task.pc = "write" /\ task \notin ownerTasks'[d])
         => LET latest == getLatestForAssistant(assistant_sessions, AssistantId)
            IN IF latest.id # "none"
               THEN /\ Len(assistant_sessions') = Len(assistant_sessions)
                    /\ \A i \in 1..Len(assistant_sessions) :
                         assistant_sessions'[i] =
                           IF assistant_sessions[i].id = latest.id
                           THEN [latest EXCEPT !.status = "running", !.active = TRUE]
                           ELSE assistant_sessions[i]
               ELSE /\ Len(assistant_sessions') = Len(assistant_sessions) + 1
                    /\ SubSeq(assistant_sessions', 1, Len(assistant_sessions))
                         = assistant_sessions]_vars

\* C19: at every moment at most one session row of an assistant has
\* active = true.
C19_OneActiveSessionPerAssistant ==
  \A a \in {AssistantId, ForeignSession.assistant_id} :
    Cardinality({ i \in 1..Len(assistant_sessions) :
                    /\ assistant_sessions[i].assistant_id = a
                    /\ assistant_sessions[i].active }) <= 1

\* C20: the delete handler's write sets deleted_at of the assistant's row and
\* nothing else, at a moment when no session of the assistant is running
\* any more; no step of the handler removes a row of assistants,
\* assistant_sessions or chat_messages; and once the handler is through its
\* dashboard does not list the assistant.
C20_DeleteIsSoftAndStopsSession ==
  [][\A d \in Dashboards : \A task \in ownerTasks[d] :
       (task.kind = "delete" /\ task \notin ownerTasks'[d])
         => /\ Len(assistants') = Len(assistants)
            /\ Len(assistant_sessions') = Len(assistant_sessions)
            /\ chat_messages' = chat_messages
            /\ task.pc = "delete" =>
                 /\ assistant_sessions' = assistant_sessions
                 /\ \A i \in 1..Len(assistants) :
                      /\ [assistants'[i] EXCEPT !.deleted_at = JNull]
                           = [assistants[i] EXCEPT !.deleted_at = JNull]
                      /\ assistants'[i].id = AssistantId
                           => assistants'[i].deleted_at # JNull
                 /\ \A i \in 1..Len(assistant_sessions) :
                      assistant_sessions[i].assistant_id = AssistantId
                        => ~assistant_sessions[i].active
            /\ task.pc = "remove" => ~dashboard'[d].listed]_vars

\* C21: when a presence sync puts a view at queue position p >= 2 among the
\* records of N different devices, the number of people the page shows as
\* ahead of it is p - 1.
C21_PeopleAheadIsPositionMinusOne ==
  [][\A v \in Views :
       presenceSync(v) =>
         LET viewers == presenceStateFlat(presence)
         IN (/\ \A i \in 1..Len(viewers) : \A j \in 1..Len(viewers) :
                  viewers[i].device_id = viewers[j].device_id => i = j
             /\ queuePosition'[v] >= 2)
              => peopleAhead(v)' = queuePosition'[v] - 1]_vars

\* C22: when the model call has returned a payload and the assistant has
\* both an MQTT host and a topic, a publish is attempted and the value
\* extracted for it is the payload's MQTT_value if it has one, otherwise
\* its MQTT_values, otherwise its values, otherwise the whole payload; when
\* the payload is null or the host or the topic is missing, no publish is
\* attempted.
C22_ExtractionOrderAndSkip ==
  [][\A v \in Views : \A task \in sendTasks[v] :
       sendChatDone(v, task) =>
         LET p == task.aiResponse.payload
             present(k) == IsObj(p) /\ k \in Keys(p) /\ Get(p, k) # JNull
             expected == IF present("MQTT_value") THEN Get(p, "MQTT_value")
                         ELSE IF present("MQTT_values") THEN Get(p, "MQTT_values")
                         ELSE IF present("values") THEN Get(p, "values")
                         ELSE p
         IN IF p # JNull /\ assistant.mqtt_host # "" /\ assistant.mqtt_topic # ""
            THEN \E t \in sendTasks'[v] :
                   /\ t.id = task.id /\ t.pc = "mqtt" /\ t.attempted
                   /\ t.mqttValueToSave = expected
            ELSE \A t \in sendTasks'[v] :
                   t.id = task.id => ~t.attempted /\ t.pc # "mqtt"]_vars

\* a turn was published and stored whose payload has neither MQTT_value nor
\* MQTT_values but has values
C22_Witness ==
  \E i \in 1..Len(chat_messages) :
    LET r == chat_messages[i]
    IN /\ r.by \in Views /\ r.attempted /\ r.success
       /\ Get(r.assistant_payload, "MQTT_value") = JNull
       /\ Get(r.assistant_payload, "MQTT_values") = JNull
       /\ Get(r.assistant_payload, "values") # JNull
       /\ r.mqtt_payload = Get(r.assistant_payload, "values")

\* C23: when a history load puts its rows on the page, a row with no user
\* text and no response text whose assistant payload holds only the
\* _response_id_marker gives no message in the list, and every row with
\* user text or response text gives at least one.
C23_MarkerRowsFilteredOut ==
  [][\A v \in Views :
       (loadRecords(v) /\ isMounted(v)) =>
         \A i \in 1..Len(loadTask[v].records) :
           LET r == loadTask[v].records[i]
               shown == \E k \in 1..Len(messages'[v]) : messages'[v][k].id = r.id
               onlyMarker == /\ r.user_text = JNull /\ r.response_text = JNull
                             /\ IsObj(r.assistant_payload)
                             /\ Keys(r.assistant_payload) = {"_response_id_marker"}
               hasText == r.user_text # JNull \/ r.response_text # JNull
           IN (onlyMarker => ~shown) /\ (hasText => shown)]_vars

\* a reopened page has loaded a thread that holds a turn and a marker row
C23_Witness ==
  /\ isMounted("v2") /\ loadTask["v2"].pc = "done" /\ messages["v2"] # <<>>
  /\ \A i \in 1..Len(chat_messages) : chat_messages[i].by # "v2"
  /\ \E i \in 1..Len(chat_messages) :
       /\ chat_messages[i].thread_id = threadIdRef["v2"]
       /\ chat_messages[i].by = "backend"

\* C24: without a reset, every page load of one browser under one viewer
\* identity ends its thread initialisation with the same thread id, the one
\* stored for that identity, and a thread id has been generated only once
\* for each identity that has one stored.
C24_ThreadIdReusedAcrossLoads ==
  /\ \A v \in Views : \A w \in Views :
       (/\ threadInit[v] = "done" /\ threadInit[w] = "done"
        /\ browserOf[v] = browserOf[w] /\ userIdentifier(v) = userIdentifier(w))
         => /\ threadIdRef[v] # NoThread
            /\ threadIdRef[v] = threadIdRef[w]
            /\ threadIdRef[v] = localStorage[browserOf[v]][userIdentifier(v)]
  /\ nextThread = Cardinality({ k \in Browsers \X Identities :
                                 localStorage[k[1]][k[2]] # NoThread })

\* the page was closed and opened again in the same browser under the same
\* identity, and both loads have initialised their thread
C24_Witness ==
  /\ life["v1"] = "gone" /\ life["v2"] = "mounted"
  /\ threadInit["v1"] = "done" /\ threadInit["v2"] = "done"
  /\ browserOf["v1"] = browserOf["v2"]
  /\ userIdentifier("v1") = userIdentifier("v2")
  /\ threadIdRef["v2"] = threadIdRef["v1"]

\* C25: the wait of the history load for the thread id makes at most 20
\* polls; a load that has polled 20 times and still has no thread id fails
\* with the load error, makes no chat_messages query and leaves the message
\* list as it was; and a load that has reached the wait always leaves it.
C25_LoadWaitIsBounded ==
  /\ [][\A v \in Views :
          loadWaitThread(v) =>
            /\ loadTask'[v].retries <= 20
            /\ (threadIdRef[v] = NoThread /\ loadTask[v].retries >= 20) =>
                  /\ loadTask'[v].pc = "done"
                  /\ loadTask'[v].records = <<>>
                  /\ messages'[v] = messages[v]
                  /\ isMounted(v) => error'[v] = "load failed"]_vars
  /\ (loadTask["v1"].pc \in {"getUser", "sleep"}) ~>
        (loadTask["v1"].pc \in {"records", "done"})

\* a load has given up after 20 polls: the thread id is still missing
C25_Witness ==
  /\ isMounted("v1") /\ threadInit["v1"] = "pending" /\ threadIdRef["v1"] = NoThread
  /\ loadTask["v1"].pc = "done" /\ error["v1"] = "load failed"
  /\ messages["v1"] = <<>>

\* C27: every row of a turn whose publish was attempted and succeeded
\* stores as mqtt_payload exactly the payload that was handed to the
\* publish, whatever the shape of the extracted value.
C27_StoredValueIsPublishedValue ==
  \A i \in 1..Len(chat_messages) :
    LET r == chat_messages[i]
    IN (r.by \in Views /\ r.attempted /\ r.success) => r.mqtt_payload = r.published

\* C26: whenever a session of the assistant becomes active, the schema
\* saved for the assistant declares an answer property and an MQTT_value
\* property.
C26_RunRequiresAnswerAndMqttValue ==
  [][\A i \in 1..Len(assistant_sessions') :
       LET row == assistant_sessions'[i]
           wasActive == i <= Len(assistant_sessions) /\ assistant_sessions[i].active
           declared == Keys(Get(assistant.json_schema, "properties"))
       IN (row.assistant_id = AssistantId /\ row.active /\ ~wasActive)
            => {"answer", "MQTT_value"} \subseteq declared]_vars

\* C28: every row a turn has written carries the thread_id that the turn's
\* model call was made with, also when the conversation is reset while the
\* turn is in flight.
C28_RowThreadIsChatThread ==
  \A i \in 1..Len(chat_messages) :
    chat_messages[i].by \in Views =>
      chat_messages[i].thread_id = chat_messages[i].chatThread

\* C30: a view that has unmounted has no presence record on the session
\* channel and its channel is not subscribed, whenever the unmount came
\* during the set-up of the channel.
C30_UnmountedViewLeavesChannel ==
  \A v \in Views :
    life[v] = "gone" =>
      /\ channel[v] \notin {"joining", "tracked"}
      /\ \A i \in 1..Len(presence) : presence[i].view # v

\* C29: when a membership snapshot makes the view it is delivered to the
\* active user, no other open view with a record in that snapshot derives
\* the active position from it, also when the two are tabs of one browser.
C29_OneActiveViewPerSnapshot ==
  [][\A v \in Views :
       (presenceSync(v) /\ isActiveUser'[v]) =>
         LET viewers == presenceStateFlat(presence)
         IN \A w \in Views \ {v} :
              (isMounted(w) /\ \E i \in 1..Len(viewers) : viewers[i].view = w)
                => myPosition(viewers, deviceId(w)) # 0]_vars

====
